---- MODULE Spec2Model ----
(***************************************************************************)
(* Weighted least-squares estimation of tudat::linear_algebra              *)
(* (Tudat/Mathematics/BasicMathematics/linearAlgebra.cpp and               *)
(* leastSquaresEstimation.h).                                              *)
(*                                                                         *)
(* Eigen::MatrixXd is a sequence of rows, Eigen::VectorXd a sequence.      *)
(* The inputs are integer valued; a double that the code obtains by a      *)
(* division (the SVD solve, the matrix inverse) is an exact fraction, a    *)
(* numerator over one common denominator.  A denominator of 0 stands for   *)
(* the non-finite doubles (inf, NaN) of an IEEE division by zero.          *)
(* Matrices handed to the SVD have at most two columns, for which the      *)
(* singular values, the rank and the minimum-norm solution have closed     *)
(* forms in exact arithmetic.                                              *)
(***************************************************************************)
EXTENDS Integers, Sequences, FiniteSets, TLC

VARIABLES op, args, ret, cerr

vars == <<op, args, ret, cerr>>

(***************************************************************************)
(* Bounds of the model.                                                    *)
(***************************************************************************)
\* Observation weights lie in 0..MaxWeight.
MaxWeight == 2

Weights == 0..MaxWeight

\* Weights of observations that count (a weight of 0 drops the observation,
\* as a row of zeros in the information matrix does).
PositiveWeights == 1..MaxWeight

\* The powers of a polynomial fit lie in 0..MaxPower.
MaxPower == 2

\* Observation residuals and right-hand sides.
Residuals == {0 - 1, 1}

\* Entries of the information matrices and of the matrices to invert.
Partials == {0 - 1, 0, 1}

\* Entries of the a-priori inverse covariance and of the consider covariance.
PriorEntries == {0, 1}

\* Numbers of observations (rows) and of estimated parameters (columns).
RowCounts == {1, 2}

ColCounts == {1, 2}

(***************************************************************************)
(* Integer helpers.                                                        *)
(***************************************************************************)
Abs(x) == IF x < 0 THEN 0 - x ELSE x

RECURSIVE Gcd(_, _)
Gcd(a, b) == IF b = 0 THEN a ELSE Gcd(b, a % b)

RECURSIVE SumSeq(_)
SumSeq(s) == IF Len(s) = 0 THEN 0 ELSE s[1] + SumSeq(Tail(s))

RECURSIVE GcdSeq(_)
GcdSeq(s) == IF Len(s) = 0 THEN 0 ELSE Gcd(Abs(s[1]), GcdSeq(Tail(s)))

(***************************************************************************)
(* Eigen dense operations used by the code.                                *)
(***************************************************************************)
Rows(M) == Len(M)

Cols(M) == Len(M[1])

\* A vector and a matrix given entry by entry; \o makes them tuples, whose
\* entries are computed once.
Vector(entries) == entries \o <<>>

Matrix(entries) == [i \in DOMAIN entries |-> entries[i] \o <<>>] \o <<>>

\* Eigen::MatrixXd::Zero( m, n )
Zero(m, n) == Matrix([i \in 1..m |-> [j \in 1..n |-> 0]])

\* Eigen::VectorXd::Zero( n )
ZeroVector(n) == Vector([k \in 1..n |-> 0])

\* Eigen::VectorXd::Constant( n, 1, c )
Constant(n, c) == Vector([k \in 1..n |-> c])

Identity(n) == Matrix([i \in 1..n |-> [j \in 1..n |-> IF i = j THEN 1 ELSE 0]])

Transpose(M) == Matrix([j \in 1..Cols(M) |-> [i \in 1..Rows(M) |-> M[i][j]]])

Column(M, j) == Vector([i \in 1..Rows(M) |-> M[i][j]])

\* cwiseProduct on two vectors of one length
CwiseProduct(u, v) == Vector([k \in 1..Len(u) |-> u[k] * v[k]])

Dot(u, v) == SumSeq(CwiseProduct(u, v))

\* operator* on two matrices
MatMul(A, B) ==
    LET Bt == Transpose(B)
    IN  Matrix([i \in 1..Rows(A) |-> [j \in 1..Cols(B) |-> Dot(A[i], Bt[j])]])

\* operator* on a matrix and a vector
MatVec(A, v) == Vector([i \in 1..Rows(A) |-> Dot(A[i], v)])

\* operator+ on two matrices
MatAdd(A, B) == Matrix([i \in 1..Rows(A) |-> [j \in 1..Cols(A) |-> A[i][j] + B[i][j]]])

MatScale(c, A) == Matrix([i \in 1..Rows(A) |-> [j \in 1..Cols(A) |-> c * A[i][j]]])

\* block( 0, j, rows, 1 ) = column, as an assignment
SetColumn(M, j, c) ==
    Matrix([i \in 1..Rows(M) |-> [k \in 1..Cols(M) |-> IF k = j THEN c[i] ELSE M[i][k]]])

\* The entries row after row.
RECURSIVE Flatten(_)
Flatten(M) == IF Len(M) = 0 THEN <<>> ELSE M[1] \o Flatten(Tail(M))

\* Determinant and adjugate of a square matrix with one or two columns.
Det(M) == IF Rows(M) = 1 THEN M[1][1]
          ELSE M[1][1] * M[2][2] - M[1][2] * M[2][1]

Adjugate(M) == IF Rows(M) = 1 THEN <<(<<1>>)>>
               ELSE << <<M[2][2], 0 - M[1][2]>>, <<0 - M[2][1], M[1][1]>> >>

\* Sum of the squares of all entries (squared Frobenius norm).
SquaredNorm(M) == Dot(Flatten(M), Flatten(M))

(***************************************************************************)
(* Doubles that come out of a division: fractions over a common            *)
(* denominator; denominator 0 is the non-finite result of a division by    *)
(* zero.  FracVector and FracMatrix give the value in lowest terms with a  *)
(* denominator > 0, so that equal values are equal records.                *)
(***************************************************************************)
FracVector(num, den) ==
    IF den = 0 THEN [num |-> ZeroVector(Len(num)), den |-> 0]
    ELSE LET g == Gcd(Abs(den), GcdSeq(num))
             s == IF den < 0 THEN 0 - 1 ELSE 1
         IN  [num |-> Vector([k \in 1..Len(num) |-> (s * num[k]) \div g]),
              den |-> Abs(den) \div g]

FracMatrix(num, den) ==
    IF den = 0 THEN [num |-> Zero(Rows(num), Cols(num)), den |-> 0]
    ELSE LET g == Gcd(Abs(den), GcdSeq(Flatten(num)))
             s == IF den < 0 THEN 0 - 1 ELSE 1
         IN  [num |-> Matrix([i \in 1..Rows(num) |->
                                  [j \in 1..Cols(num) |-> (s * num[i][j]) \div g]]),
              den |-> Abs(den) \div g]

Lift(M) == [num |-> M, den |-> 1]

FracMul(A, B) == [num |-> MatMul(A.num, B.num), den |-> A.den * B.den]

FracAdd(A, B) ==
    [num |-> MatAdd(MatScale(B.den, A.num), MatScale(A.den, B.num)),
     den |-> A.den * B.den]

Reduced(A) == FracMatrix(A.num, A.den)

FracTranspose(A) == [num |-> Transpose(A.num), den |-> A.den]

\* Eigen's inverse( ): no invertibility test, a singular matrix divides by zero.
Inverse(M) ==
    IF Det(M) = 0 THEN FracMatrix(Zero(Rows(M), Cols(M)), 0)
    ELSE FracMatrix(Adjugate(M), Det(M))

(***************************************************************************)
(* Singular value decomposition and condition number.                      *)
(* The singular values of a matrix are irrational in general; the          *)
(* decomposition carries the two symmetric functions of the first          *)
(* (largest) and last (smallest) singular value that are rational:         *)
(* their product and the sum of their squares.  For a 1 x 1 matrix both    *)
(* are |a|; for a 2 x 2 matrix the product is |det| and the sum of the     *)
(* squares is the squared Frobenius norm.                                  *)
(***************************************************************************)
jacobiSvd(M) ==
    [matrix |-> M,
     firstTimesLast |-> IF Rows(M) = 1 THEN M[1][1] * M[1][1] ELSE Abs(Det(M)),
     firstSqPlusLastSq |-> IF Rows(M) = 1 THEN 2 * M[1][1] * M[1][1]
                           ELSE SquaredNorm(M)]

getSVDDecompositionOfInformationMatrix(informationMatrix) ==
    jacobiSvd(informationMatrix)

\* singularValues( 0 ) / singularValues( rows - 1 ) as an IEEE division:
\* 0/0 is NaN, x/0 is +inf; a finite quotient k >= 1 is kept by the fraction
\* k + 1/k = (first^2 + last^2) / (first * last), in lowest terms.
getConditionNumberOfDecomposedMatrix(singularValueDecomposition) ==
    LET p == singularValueDecomposition.firstTimesLast
        s == singularValueDecomposition.firstSqPlusLastSq
    IN  IF p = 0
        THEN [kind |-> IF s = 0 THEN "nan" ELSE "inf", sumSq |-> 0, prod |-> 0]
        ELSE [kind |-> "finite", sumSq |-> s \div Gcd(s, p), prod |-> p \div Gcd(s, p)]

getConditionNumberOfInformationMatrix(informationMatrix) ==
    getConditionNumberOfDecomposedMatrix(
        getSVDDecompositionOfInformationMatrix(informationMatrix))

\* The double comparison  conditionNumber > limit,  limit = num/den > 0.
\* NaN compares false, +inf true.  A finite k >= 1 exceeds a limit below 1;
\* it stays under a limit L >= sumSq/prod (k <= k + 1/k); otherwise
\* k > L  iff  k + 1/k > L + 1/L, as x + 1/x increases on x >= 1.
GreaterThan(conditionNumber, limit) ==
    CASE conditionNumber.kind = "nan" -> FALSE
      [] conditionNumber.kind = "inf" -> TRUE
      [] OTHER ->
           IF limit.num < limit.den THEN TRUE
           ELSE IF limit.num \div limit.den >= conditionNumber.sumSq THEN FALSE
           ELSE conditionNumber.sumSq * limit.num * limit.den >
                    conditionNumber.prod * (limit.num * limit.num + limit.den * limit.den)

\* JacobiSVD::solve: the least-squares solution of minimum norm.  Full rank:
\* the exact solution; rank one: A^T b / |A|_F^2; rank zero: the zero vector.
svdSolve(svdDecomposition, rightHandSideVector) ==
    LET A == svdDecomposition.matrix
    IN  IF Det(A) # 0
        THEN FracVector(MatVec(Adjugate(A), rightHandSideVector), Det(A))
        ELSE IF SquaredNorm(A) # 0
        THEN FracVector(MatVec(Transpose(A), rightHandSideVector), SquaredNorm(A))
        ELSE FracVector(ZeroVector(Cols(A)), 1)

\* Default arguments of the declarations.
SolverDefaultCheckConditionNumber == TRUE

SolverDefaultMaximumAllowedConditionNumber == [num |-> 1, den |-> 100000000]

AdjustmentDefaultCheckConditionNumber == TRUE

AdjustmentDefaultMaximumAllowedConditionNumber == [num |-> 100000000, den |-> 1]

\* The line written to std::cerr.
ConditionNumberWarning(conditionNumber) ==
    [text |-> "Warning when performing least squares, condition number is",
     conditionNumber |-> conditionNumber]

\* The solver with the test of checkConditionNumber left out.
SolveWarningWhateverTheFlag(matrixToInvert, rightHandSideVector, checkConditionNumber, maximumAllowedConditionNumber) ==
    LET svdDecomposition == jacobiSvd(matrixToInvert)
        conditionNumber == getConditionNumberOfDecomposedMatrix(svdDecomposition)
    IN  [value |-> svdSolve(svdDecomposition, rightHandSideVector),
         cerr |-> IF GreaterThan(conditionNumber, maximumAllowedConditionNumber)
                  THEN <<ConditionNumberWarning(conditionNumber)>>
                  ELSE <<>>]

\* The solver giving up after the warning: it returns the zero vector.
SolveGivingUpAfterWarning(matrixToInvert, rightHandSideVector, checkConditionNumber, maximumAllowedConditionNumber) ==
    LET svdDecomposition == jacobiSvd(matrixToInvert)
        conditionNumber == getConditionNumberOfDecomposedMatrix(svdDecomposition)
        warned == checkConditionNumber
                  /\ GreaterThan(conditionNumber, maximumAllowedConditionNumber)
    IN  [value |-> IF warned
                   THEN [num |-> ZeroVector(Len(rightHandSideVector)), den |-> 1]
                   ELSE svdSolve(svdDecomposition, rightHandSideVector),
         cerr |-> IF warned THEN <<ConditionNumberWarning(conditionNumber)>> ELSE <<>>]

\* Returns the solution and what the call wrote to std::cerr.
solveSystemOfEquationsWithSvd(matrixToInvert, rightHandSideVector, checkConditionNumber, maximumAllowedConditionNumber) ==
    LET svdDecomposition == jacobiSvd(matrixToInvert)
        conditionNumber == getConditionNumberOfDecomposedMatrix(svdDecomposition)
    IN  [value |-> svdSolve(svdDecomposition, rightHandSideVector),
         cerr |-> IF checkConditionNumber
                     /\ GreaterThan(conditionNumber, maximumAllowedConditionNumber)
                  THEN <<ConditionNumberWarning(conditionNumber)>>
                  ELSE <<>>]

\* The call with the trailing arguments left to their defaults.
solveSystemOfEquationsWithSvdDefault(matrixToInvert, rightHandSideVector) ==
    solveSystemOfEquationsWithSvd(matrixToInvert, rightHandSideVector,
                                  SolverDefaultCheckConditionNumber,
                                  SolverDefaultMaximumAllowedConditionNumber)

(***************************************************************************)
(* Weighted normal equations.                                              *)
(***************************************************************************)
\* The loop over the columns i: column i of the result becomes column i of
\* the information matrix times the weights, element by element.
RECURSIVE WeightColumnsFrom(_, _, _, _)
WeightColumnsFrom(informationMatrix, diagonalOfWeightMatrix, weighted, i) ==
    IF i > Cols(informationMatrix) THEN weighted
    ELSE WeightColumnsFrom(
             informationMatrix, diagonalOfWeightMatrix,
             SetColumn(weighted, i,
                       CwiseProduct(Column(informationMatrix, i), diagonalOfWeightMatrix)),
             i + 1)

\* The loop stopping one column early: the last column stays zero.
RECURSIVE WeightAllButLastColumnFrom(_, _, _, _)
WeightAllButLastColumnFrom(informationMatrix, diagonalOfWeightMatrix, weighted, i) ==
    IF i > Cols(informationMatrix) - 1 THEN weighted
    ELSE WeightAllButLastColumnFrom(
             informationMatrix, diagonalOfWeightMatrix,
             SetColumn(weighted, i,
                       CwiseProduct(Column(informationMatrix, i), diagonalOfWeightMatrix)),
             i + 1)

WeightAllButLastColumn(informationMatrix, diagonalOfWeightMatrix) ==
    WeightAllButLastColumnFrom(informationMatrix, diagonalOfWeightMatrix,
                               Zero(Rows(informationMatrix), Cols(informationMatrix)), 1)

\* For weights of the size of a column.
multiplyInformationMatrixByDiagonalWeightMatrix(informationMatrix, diagonalOfWeightMatrix) ==
    WeightColumnsFrom(informationMatrix, diagonalOfWeightMatrix,
                      Zero(Rows(informationMatrix), Cols(informationMatrix)), 1)

\* The inverse covariance with the a-priori information left out.
InverseOfUpdatedCovarianceWithoutPrior(informationMatrix, diagonalOfWeightMatrix, inverseOfAPrioriCovarianceMatrix) ==
    MatMul(Transpose(informationMatrix),
           WeightColumnsFrom(informationMatrix, diagonalOfWeightMatrix,
                             Zero(Rows(informationMatrix), Cols(informationMatrix)), 1))

calculateInverseOfUpdatedCovarianceMatrix(informationMatrix, diagonalOfWeightMatrix, inverseOfAPrioriCovarianceMatrix) ==
    MatAdd(inverseOfAPrioriCovarianceMatrix,
           MatMul(Transpose(informationMatrix),
                  multiplyInformationMatrixByDiagonalWeightMatrix(
                      informationMatrix, diagonalOfWeightMatrix)))

calculateInverseOfUpdatedCovarianceMatrixNoPrior(informationMatrix, diagonalOfWeightMatrix) ==
    calculateInverseOfUpdatedCovarianceMatrix(
        informationMatrix, diagonalOfWeightMatrix,
        Zero(Cols(informationMatrix), Cols(informationMatrix)))

(***************************************************************************)
(* Least-squares adjustment.  Each returns the pair and the std::cerr      *)
(* output of the call.                                                     *)
(***************************************************************************)
\* The adjustment with the weights left out of the right-hand side.
AdjustmentWithUnweightedRightHandSide(informationMatrix, observationResiduals, diagonalOfWeightMatrix, inverseOfAPrioriCovarianceMatrix, aPrioriAdjustmentEstimate, checkConditionNumber, maximumAllowedConditionNumber) ==
    LET rightHandSide == MatVec(Transpose(informationMatrix), observationResiduals)
        inverseOfCovarianceMatrix ==
            MatAdd(inverseOfAPrioriCovarianceMatrix,
                   MatMul(Transpose(informationMatrix),
                          WeightColumnsFrom(
                              informationMatrix, diagonalOfWeightMatrix,
                              Zero(Rows(informationMatrix), Cols(informationMatrix)), 1)))
        solved == solveSystemOfEquationsWithSvd(
                      inverseOfCovarianceMatrix, rightHandSide,
                      checkConditionNumber, maximumAllowedConditionNumber)
    IN  [first |-> solved.value, second |-> inverseOfCovarianceMatrix, cerr |-> solved.cerr]

performLeastSquaresAdjustmentFromInformationMatrix(informationMatrix, observationResiduals, diagonalOfWeightMatrix, inverseOfAPrioriCovarianceMatrix, aPrioriAdjustmentEstimate, checkConditionNumber, maximumAllowedConditionNumber) ==
    LET rightHandSide ==
            MatVec(Transpose(informationMatrix),
                   CwiseProduct(diagonalOfWeightMatrix, observationResiduals))
        inverseOfCovarianceMatrix ==
            calculateInverseOfUpdatedCovarianceMatrix(
                informationMatrix, diagonalOfWeightMatrix, inverseOfAPrioriCovarianceMatrix)
        solved == solveSystemOfEquationsWithSvd(
                      inverseOfCovarianceMatrix, rightHandSide,
                      checkConditionNumber, maximumAllowedConditionNumber)
    IN  [first |-> solved.value, second |-> inverseOfCovarianceMatrix, cerr |-> solved.cerr]

\* The overload without a prior passing a unit prior on.
AdjustmentNoPriorWithUnitPrior(informationMatrix, observationResiduals, diagonalOfWeightMatrix, checkConditionNumber, maximumAllowedConditionNumber) ==
    performLeastSquaresAdjustmentFromInformationMatrix(
        informationMatrix, observationResiduals, diagonalOfWeightMatrix,
        Identity(Cols(informationMatrix)),
        ZeroVector(Len(observationResiduals)),
        checkConditionNumber, maximumAllowedConditionNumber)

performLeastSquaresAdjustmentFromInformationMatrixNoPrior(informationMatrix, observationResiduals, diagonalOfWeightMatrix, checkConditionNumber, maximumAllowedConditionNumber) ==
    performLeastSquaresAdjustmentFromInformationMatrix(
        informationMatrix, observationResiduals, diagonalOfWeightMatrix,
        Zero(Cols(informationMatrix), Cols(informationMatrix)),
        ZeroVector(Len(observationResiduals)),
        checkConditionNumber, maximumAllowedConditionNumber)

performLeastSquaresAdjustmentFromInformationMatrixNoWeights(informationMatrix, observationResiduals, checkConditionNumber, maximumAllowedConditionNumber) ==
    performLeastSquaresAdjustmentFromInformationMatrixNoPrior(
        informationMatrix, observationResiduals,
        Constant(Len(observationResiduals), 1),
        checkConditionNumber, maximumAllowedConditionNumber)

(***************************************************************************)
(* Covariance with consider parameters.                                    *)
(***************************************************************************)
\* The consider covariance with the contribution of the consider parameters
\* taken off the noise-only covariance.
ConsiderCovarianceSubtracted(informationMatrix, diagonalOfWeightMatrix, inverseOfAPrioriCovarianceMatrix, considerInformationMatrix, considerCovarianceMatrix) ==
    LET noiseOnlyCovariance ==
            Inverse(calculateInverseOfUpdatedCovarianceMatrix(
                        informationMatrix, diagonalOfWeightMatrix,
                        inverseOfAPrioriCovarianceMatrix))
        auxiliaryMatrix ==
            FracMul(noiseOnlyCovariance,
                    Lift(Transpose(multiplyInformationMatrixByDiagonalWeightMatrix(
                                       informationMatrix, diagonalOfWeightMatrix))))
    IN  Reduced(FracAdd(
            noiseOnlyCovariance,
            FracMul(FracMul(FracMul(auxiliaryMatrix, Lift(considerInformationMatrix)),
                            Lift(MatScale(0 - 1, considerCovarianceMatrix))),
                    FracMul(Lift(Transpose(considerInformationMatrix)),
                            FracTranspose(auxiliaryMatrix)))))

calculateCovarianceMatrixWithConsiderParameters(informationMatrix, diagonalOfWeightMatrix, inverseOfAPrioriCovarianceMatrix, considerInformationMatrix, considerCovarianceMatrix) ==
    LET noiseOnlyCovariance ==
            Inverse(calculateInverseOfUpdatedCovarianceMatrix(
                        informationMatrix, diagonalOfWeightMatrix,
                        inverseOfAPrioriCovarianceMatrix))
        auxiliaryMatrix ==
            FracMul(noiseOnlyCovariance,
                    Lift(Transpose(multiplyInformationMatrixByDiagonalWeightMatrix(
                                       informationMatrix, diagonalOfWeightMatrix))))
    IN  Reduced(FracAdd(
            noiseOnlyCovariance,
            FracMul(FracMul(FracMul(auxiliaryMatrix, Lift(considerInformationMatrix)),
                            Lift(considerCovarianceMatrix)),
                    FracMul(Lift(Transpose(considerInformationMatrix)),
                            FracTranspose(auxiliaryMatrix)))))


(***************************************************************************)
(* Polynomial fit.                                                         *)
(***************************************************************************)
\* std::pow for an integer base and an exponent 0, 1, 2, ...: pow( x, 0 ) is 1
\* for every x, 0 included.
RECURSIVE Pow(_, _)
Pow(base, exponent) == IF exponent = 0 THEN 1 ELSE base * Pow(base, exponent - 1)

\* partialMatrix( i, j ) = value.  Eigen stores the matrix column after
\* column; a row index past the last row (met only when the independent
\* values outnumber the dependent ones, in a build without eigen_assert)
\* addresses the entry that many places further in the storage, or nothing of
\* the matrix when that lies past its end.
AssignCoefficient(partialMatrix, i, j, value) ==
    LET rows == Rows(partialMatrix)
        place == (i - 1) + (j - 1) * rows
        row == (place % rows) + 1
        col == (place \div rows) + 1
    IN  IF col > Cols(partialMatrix) THEN partialMatrix
        ELSE Matrix([a \in 1..rows |-> [b \in 1..Cols(partialMatrix) |-> IF a = row /\ b = col THEN value ELSE partialMatrix[a][b]]])

\* The two loops, i over the independent values and j over the powers, from
\* the step at (i, j) on.
RECURSIVE FillPartialsFrom(_, _, _, _, _)
FillPartialsFrom(independentValues, polynomialPowers, partialMatrix, i, j) ==
    IF i > Len(independentValues) THEN partialMatrix
    ELSE IF j > Len(polynomialPowers)
    THEN FillPartialsFrom(independentValues, polynomialPowers, partialMatrix, i + 1, 1)
    ELSE FillPartialsFrom(independentValues, polynomialPowers,
                          AssignCoefficient(partialMatrix, i, j, Pow(independentValues[i], polynomialPowers[j])),
                          i, j + 1)

SizeErrorMessage ==
    [text |-> "Error when doing least squares polynomial fit, size of dependent and independent variable vectors is not equal"]

\* The adjustment called with the information matrix and the residuals only:
\* the trailing arguments take the defaults of its declaration.
performLeastSquaresAdjustmentFromInformationMatrixNoWeightsDefault(informationMatrix, observationResiduals) ==
    performLeastSquaresAdjustmentFromInformationMatrixNoWeights(
        informationMatrix, observationResiduals,
        AdjustmentDefaultCheckConditionNumber,
        AdjustmentDefaultMaximumAllowedConditionNumber)

\* The partials as products of value and power, not powers.
partialMatrixOfProducts(independentValues, dependentValues, polynomialPowers) ==
    Matrix([i \in 1..Len(dependentValues) |-> [j \in 1..Len(polynomialPowers) |-> IF i <= Len(independentValues) THEN independentValues[i] * polynomialPowers[j] ELSE 0]])

\* The matrix of partials the fit hands to the adjustment.
partialMatrixOfFit(independentValues, dependentValues, polynomialPowers) ==
    FillPartialsFrom(independentValues, polynomialPowers,
                     Zero(Len(dependentValues), Len(polynomialPowers)), 1, 1)

\* Returns the coefficients and what the call wrote to std::cerr.  The size
\* error is written and the fit goes on.
getLeastSquaresPolynomialFit(independentValues, dependentValues, polynomialPowers) ==
    LET adjusted == performLeastSquaresAdjustmentFromInformationMatrixNoWeightsDefault(
                        partialMatrixOfFit(independentValues, dependentValues, polynomialPowers),
                        dependentValues)
    IN  [value |-> adjusted.first,
         cerr |-> (IF Len(independentValues) # Len(dependentValues)
                   THEN <<SizeErrorMessage>> ELSE <<>>) \o adjusted.cerr]

\* With more independent than dependent values the loop writes past the last
\* row: a build with eigen_assert aborts at that write, after the size error
\* was written; a build without it goes on as AssignCoefficient tells.
getLeastSquaresPolynomialFitOutcomes(independentValues, dependentValues, polynomialPowers) ==
    LET fit == getLeastSquaresPolynomialFit(independentValues, dependentValues, polynomialPowers)
    IN  {[status |-> "returned", value |-> fit.value, cerr |-> fit.cerr]}
        \cup IF Len(independentValues) > Len(dependentValues)
             THEN {[status |-> "aborted", value |-> <<>>, cerr |-> <<SizeErrorMessage>>]}
             ELSE {}

\* std::map< double, double >: a function on a finite set of keys, iterated
\* from the least key to the greatest.
LeastKey(keys) == CHOOSE k \in keys : \A other \in keys : k <= other

RECURSIVE KeysInOrder(_)
KeysInOrder(keys) ==
    IF keys = {} THEN <<>>
    ELSE <<LeastKey(keys)>> \o KeysInOrder(keys \ {LeastKey(keys)})

createVectorFromMapKeys(inputMap) == KeysInOrder(DOMAIN inputMap)

createVectorFromMapValues(inputMap) ==
    LET keys == KeysInOrder(DOMAIN inputMap)
    IN  Vector([k \in 1..Len(keys) |-> inputMap[keys[k]]])

\* The copies between std::vector and Eigen::VectorXd, entry by entry.
convertStlVectorToEigenVector(stlVector) ==
    Vector([k \in 1..Len(stlVector) |-> stlVector[k]])

convertEigenVectorToStlVector(eigenVector) ==
    [num |-> Vector([k \in 1..Len(eigenVector.num) |-> eigenVector.num[k]]),
     den |-> eigenVector.den]

getLeastSquaresPolynomialFitFromMap(independentDependentValueMap, polynomialPowers) ==
    LET fit == getLeastSquaresPolynomialFit(
                   convertStlVectorToEigenVector(
                       createVectorFromMapKeys(independentDependentValueMap)),
                   convertStlVectorToEigenVector(
                       createVectorFromMapValues(independentDependentValueMap)),
                   polynomialPowers)
    IN  [value |-> convertEigenVectorToStlVector(fit.value), cerr |-> fit.cerr]

(***************************************************************************)
(* A call with weights of another length than the rows of the information  *)
(* matrix.  The code has no size test of its own.  cwiseProduct tests the  *)
(* sizes with eigen_assert: a build with assertions aborts at the first    *)
(* column; a build without them (NDEBUG) evaluates the product over the    *)
(* rows of the column, reading the weights where they are stored and       *)
(* whatever follows them when they are too few.                            *)
(***************************************************************************)
Min(a, b) == IF a < b THEN a ELSE b

WeightsAsRead(diagonalOfWeightMatrix, rows) ==
    {v \in [1..rows -> Weights] :
        \A k \in 1..Min(rows, Len(diagonalOfWeightMatrix)) :
            v[k] = diagonalOfWeightMatrix[k]}

multiplyInformationMatrixByDiagonalWeightMatrixOutcomes(informationMatrix, diagonalOfWeightMatrix) ==
    IF Len(diagonalOfWeightMatrix) = Rows(informationMatrix)
    THEN {[status |-> "returned",
           value |-> multiplyInformationMatrixByDiagonalWeightMatrix(
                         informationMatrix, diagonalOfWeightMatrix)]}
    ELSE {[status |-> "aborted", value |-> <<>>]}
         \cup {[status |-> "returned",
                value |-> multiplyInformationMatrixByDiagonalWeightMatrix(
                              informationMatrix, v)] :
                  v \in WeightsAsRead(diagonalOfWeightMatrix, Rows(informationMatrix))}

(***************************************************************************)
(* Inputs.                                                                 *)
(***************************************************************************)
Matrices(m, n, S) == [1..m -> [1..n -> S]]

Vectors(m, S) == [1..m -> S]

InformationMatrices ==
    UNION {Matrices(m, n, Partials) : m \in RowCounts, n \in ColCounts}

SquareMatrices == UNION {Matrices(n, n, Partials) : n \in ColCounts}

\* Weight vectors of the size of a column and of other sizes.
WeightLengths == RowCounts \cup {3}

ConditionLimits ==
    {SolverDefaultMaximumAllowedConditionNumber,
     [num |-> 1, den |-> 1],
     AdjustmentDefaultMaximumAllowedConditionNumber}

\* A-priori inverse covariances: none, the identity, and one that is not
\* symmetric (for a single parameter: none and 1).
UpperOnes(n) == Matrix([i \in 1..n |-> [j \in 1..n |-> IF i < j THEN 1 ELSE 0]])

AdjustmentPriors(n) == {Zero(n, n), Identity(n), UpperOnes(n)}

\* checkConditionNumber and maximumAllowedConditionNumber of an adjustment.
AdjustmentFlags ==
    {<<TRUE, limit>> : limit \in ConditionLimits} \cup {<<FALSE, [num |-> 1, den |-> 1]>>}

\* Consider parameters: one or two.  Their covariance is handed in as it
\* is, positive-semidefinite or not.
ConsiderCounts == {1, 2}

ConsiderPartials == {0, 1}

\* Information matrices of the calls with consider parameters: the partials
\* 0 and 1, and some partials of both signs.
ConsiderDesigns ==
    UNION {Matrices(m, n, ConsiderPartials) : m \in RowCounts, n \in ColCounts}
    \cup {<< <<0 - 1>> >>, << <<1, 0 - 1>> >>, << <<0 - 1>>, <<1>> >>,
          << <<1, 0 - 1>>, <<1, 1>> >>, << <<0 - 1, 0>>, <<1, 1>> >>}

ConsiderPriors(n) == {Zero(n, n), Identity(n)}

ConsiderCovariances(c) ==
    IF c = 1 THEN {<<(<<0>>)>>, <<(<<1>>)>>, <<(<<0 - 1>>)>>}
    ELSE {Identity(2), << <<1, 1>>, <<1, 1>> >>, << <<0, 1>>, <<1, 0>> >>}

\* The 3 observations, 2 parameters scenario.
ScenarioInformationMatrix == << <<1, 0>>, <<0, 1>>, <<1, 1>> >>

ScenarioResiduals == <<1, 2, 3>>

\* The ill-conditioned system  [[1, 1], [1, 1.004]] x = [2, 2]  in units of
\* 1/250, with the limit 1e3 of the scenario.
IllConditionedMatrix == << <<250, 250>>, <<250, 251>> >>

IllConditionedRightHandSide == <<500, 500>>

ScenarioConditionLimit == [num |-> 1000, den |-> 1]

\* Samples and powers of the polynomial fits.
PolynomialPowers == 0..MaxPower

PowerCounts == {1, 2}

SampleCounts == {1, 2, 3}

IndependentValues == {0 - 1, 0, 1, 2}

DependentValues == {1, 3, 5}

PowerLists == UNION {Vectors(k, PolynomialPowers) : k \in PowerCounts}

SampleMaps ==
    UNION {[keys -> DependentValues] :
              keys \in {K \in SUBSET IndependentValues : Cardinality(K) \in SampleCounts}}

NoArgs ==
    [informationMatrix |-> <<>>, observationResiduals |-> <<>>,
     diagonalOfWeightMatrix |-> <<>>, inverseOfAPrioriCovarianceMatrix |-> <<>>,
     considerInformationMatrix |-> <<>>, considerCovarianceMatrix |-> <<>>,
     matrixToInvert |-> <<>>, rightHandSideVector |-> <<>>,
     checkConditionNumber |-> FALSE, maximumAllowedConditionNumber |-> <<>>,
     independentValues |-> <<>>, dependentValues |-> <<>>,
     polynomialPowers |-> <<>>, independentDependentValueMap |-> <<>>]

(***************************************************************************)
(* The state: the function being called ("none" between calls), its        *)
(* arguments (defaults filled in), what it returned and what it wrote to   *)
(* std::cerr.  The caller takes the result (Return) before the next call.  *)
(***************************************************************************)
Init ==
    /\ op = "none"
    /\ args = NoArgs
    /\ ret = [status |-> "none", value |-> <<>>]
    /\ cerr = <<>>

CallSolve ==
    /\ op = "none"
    /\ \E A \in SquareMatrices \cup {IllConditionedMatrix} :
       \E b \in Vectors(Rows(A), Residuals) \cup {IllConditionedRightHandSide} :
       \E check \in BOOLEAN :
       \E limit \in ConditionLimits \cup {ScenarioConditionLimit} :
           /\ Len(b) = Rows(A)
           /\ (A = IllConditionedMatrix) <=> (b = IllConditionedRightHandSide)
           /\ \E out \in {solveSystemOfEquationsWithSvd(A, b, check, limit)} :
                  /\ op' = "solveSystemOfEquationsWithSvd"
                  /\ args' = [NoArgs EXCEPT !.matrixToInvert = A,
                                            !.rightHandSideVector = b,
                                            !.checkConditionNumber = check,
                                            !.maximumAllowedConditionNumber = limit]
                  /\ ret' = [status |-> "returned", value |-> out.value]
                  /\ cerr' = out.cerr

CallSolveDefault ==
    /\ op = "none"
    /\ \E A \in SquareMatrices :
       \E b \in Vectors(Rows(A), Residuals) :
           \E out \in {solveSystemOfEquationsWithSvdDefault(A, b)} :
               /\ op' = "solveSystemOfEquationsWithSvdDefault"
               /\ args' = [NoArgs EXCEPT
                             !.matrixToInvert = A,
                             !.rightHandSideVector = b,
                             !.checkConditionNumber = SolverDefaultCheckConditionNumber,
                             !.maximumAllowedConditionNumber =
                                 SolverDefaultMaximumAllowedConditionNumber]
               /\ ret' = [status |-> "returned", value |-> out.value]
               /\ cerr' = out.cerr

CallWeight ==
    /\ op = "none"
    /\ \E H \in InformationMatrices :
       \E k \in WeightLengths :
       \E w \in Vectors(k, Weights) :
       \E out \in multiplyInformationMatrixByDiagonalWeightMatrixOutcomes(H, w) :
           /\ op' = "multiplyInformationMatrixByDiagonalWeightMatrix"
           /\ args' = [NoArgs EXCEPT !.informationMatrix = H,
                                     !.diagonalOfWeightMatrix = w]
           /\ ret' = out
           /\ cerr' = <<>>

CallInverseOfUpdatedCovariance ==
    /\ op = "none"
    /\ \E H \in InformationMatrices :
       \E w \in Vectors(Rows(H), Weights) :
       \E P \in Matrices(Cols(H), Cols(H), PriorEntries) :
           /\ op' = "calculateInverseOfUpdatedCovarianceMatrix"
           /\ args' = [NoArgs EXCEPT !.informationMatrix = H,
                                     !.diagonalOfWeightMatrix = w,
                                     !.inverseOfAPrioriCovarianceMatrix = P]
           /\ ret' = [status |-> "returned",
                      value |-> calculateInverseOfUpdatedCovarianceMatrix(H, w, P)]
           /\ cerr' = <<>>

CallInverseOfUpdatedCovarianceNoPrior ==
    /\ op = "none"
    /\ \E H \in InformationMatrices :
       \E w \in Vectors(Rows(H), Weights) :
           /\ op' = "calculateInverseOfUpdatedCovarianceMatrixNoPrior"
           /\ args' = [NoArgs EXCEPT !.informationMatrix = H,
                                     !.diagonalOfWeightMatrix = w]
           /\ ret' = [status |-> "returned",
                      value |-> calculateInverseOfUpdatedCovarianceMatrixNoPrior(H, w)]
           /\ cerr' = <<>>

\* ( H, r, w ) of an adjustment: the bounded ones and the scenario.
AdjustmentObservations ==
    {<<H, r, w>> : H \in {ScenarioInformationMatrix}, r \in {ScenarioResiduals},
                   w \in {Constant(3, 1)}}
    \cup UNION {{<<H, r, w>> : r \in Vectors(Rows(H), Residuals),
                               w \in Vectors(Rows(H), Weights)} :
                   H \in InformationMatrices}

CallAdjust ==
    /\ op = "none"
    /\ \E o \in AdjustmentObservations :
       \E P \in AdjustmentPriors(Cols(o[1])) :
       \E f \in AdjustmentFlags :
           \E out \in {performLeastSquaresAdjustmentFromInformationMatrix(
                          o[1], o[2], o[3], P, ZeroVector(Cols(o[1])), f[1], f[2])} :
               /\ op' = "performLeastSquaresAdjustmentFromInformationMatrix"
               /\ args' = [NoArgs EXCEPT !.informationMatrix = o[1],
                                         !.observationResiduals = o[2],
                                         !.diagonalOfWeightMatrix = o[3],
                                         !.inverseOfAPrioriCovarianceMatrix = P,
                                         !.checkConditionNumber = f[1],
                                         !.maximumAllowedConditionNumber = f[2]]
               /\ ret' = [status |-> "returned",
                          value |-> [first |-> out.first, second |-> out.second]]
               /\ cerr' = out.cerr

CallAdjustNoPrior ==
    /\ op = "none"
    /\ \E o \in AdjustmentObservations :
       \E f \in AdjustmentFlags :
           \E out \in {performLeastSquaresAdjustmentFromInformationMatrixNoPrior(
                          o[1], o[2], o[3], f[1], f[2])} :
               /\ op' = "performLeastSquaresAdjustmentFromInformationMatrixNoPrior"
               /\ args' = [NoArgs EXCEPT !.informationMatrix = o[1],
                                         !.observationResiduals = o[2],
                                         !.diagonalOfWeightMatrix = o[3],
                                         !.checkConditionNumber = f[1],
                                         !.maximumAllowedConditionNumber = f[2]]
               /\ ret' = [status |-> "returned",
                          value |-> [first |-> out.first, second |-> out.second]]
               /\ cerr' = out.cerr

CallAdjustNoWeights ==
    /\ op = "none"
    /\ \E H \in InformationMatrices \cup {ScenarioInformationMatrix} :
       \E r \in Vectors(Rows(H), Residuals) \cup {ScenarioResiduals} :
       \E f \in AdjustmentFlags :
           /\ Len(r) = Rows(H)
           /\ \E out \in {performLeastSquaresAdjustmentFromInformationMatrixNoWeights(
                             H, r, f[1], f[2])} :
                  /\ op' = "performLeastSquaresAdjustmentFromInformationMatrixNoWeights"
                  /\ args' = [NoArgs EXCEPT !.informationMatrix = H,
                                            !.observationResiduals = r,
                                            !.checkConditionNumber = f[1],
                                            !.maximumAllowedConditionNumber = f[2]]
                  /\ ret' = [status |-> "returned",
                             value |-> [first |-> out.first, second |-> out.second]]
                  /\ cerr' = out.cerr

CallConsiderCovariance ==
    /\ op = "none"
    /\ \E H \in ConsiderDesigns :
       \E w \in Vectors(Rows(H), PositiveWeights) :
       \E P \in ConsiderPriors(Cols(H)) :
       \E c \in ConsiderCounts :
       \E Hc \in Matrices(Rows(H), c, ConsiderPartials) :
       \E Pc \in ConsiderCovariances(c) :
           /\ op' = "calculateCovarianceMatrixWithConsiderParameters"
           /\ args' = [NoArgs EXCEPT !.informationMatrix = H,
                                     !.diagonalOfWeightMatrix = w,
                                     !.inverseOfAPrioriCovarianceMatrix = P,
                                     !.considerInformationMatrix = Hc,
                                     !.considerCovarianceMatrix = Pc]
           /\ ret' = [status |-> "returned",
                      value |-> calculateCovarianceMatrixWithConsiderParameters(
                                    H, w, P, Hc, Pc)]
           /\ cerr' = <<>>

CallPolynomialFit ==
    /\ op = "none"
    /\ \E n \in SampleCounts :
       \E m \in SampleCounts :
       \E x \in Vectors(n, IndependentValues) :
       \E y \in Vectors(m, DependentValues) :
       \E powers \in PowerLists :
       \E out \in getLeastSquaresPolynomialFitOutcomes(x, y, powers) :
           /\ op' = "getLeastSquaresPolynomialFit"
           /\ args' = [NoArgs EXCEPT !.independentValues = x,
                                     !.dependentValues = y,
                                     !.polynomialPowers = powers]
           /\ ret' = [status |-> out.status, value |-> out.value]
           /\ cerr' = out.cerr

CallPolynomialFitFromMap ==
    /\ op = "none"
    /\ \E samples \in SampleMaps :
       \E powers \in PowerLists :
       \E out \in {getLeastSquaresPolynomialFitFromMap(samples, powers)} :
           /\ op' = "getLeastSquaresPolynomialFitFromMap"
           /\ args' = [NoArgs EXCEPT !.independentDependentValueMap = samples,
                                     !.polynomialPowers = powers]
           /\ ret' = [status |-> "returned", value |-> out.value]
           /\ cerr' = out.cerr

Return ==
    /\ op # "none"
    /\ op' = "none"
    /\ args' = NoArgs
    /\ ret' = [status |-> "none", value |-> <<>>]
    /\ cerr' = <<>>

Next ==
    \/ CallSolve
    \/ CallSolveDefault
    \/ CallWeight
    \/ CallInverseOfUpdatedCovariance
    \/ CallInverseOfUpdatedCovarianceNoPrior
    \/ CallAdjust
    \/ CallAdjustNoPrior
    \/ CallAdjustNoWeights
    \/ CallConsiderCovariance
    \/ CallPolynomialFit
    \/ CallPolynomialFitFromMap
    \/ Return

Spec == Init /\ [][Next]_vars

\* The solver on its own.
NextSolver == CallSolve \/ CallSolveDefault \/ Return

SpecSolver == Init /\ [][NextSolver]_vars

\* The normal-equation builder on its own.
NextBuilder ==
    \/ CallWeight
    \/ CallInverseOfUpdatedCovariance
    \/ CallInverseOfUpdatedCovarianceNoPrior
    \/ Return

SpecBuilder == Init /\ [][NextBuilder]_vars

\* The adjustment with the two functions it calls.
NextAdjust ==
    \/ CallSolve
    \/ CallSolveDefault
    \/ CallInverseOfUpdatedCovariance
    \/ CallInverseOfUpdatedCovarianceNoPrior
    \/ CallAdjust
    \/ CallAdjustNoPrior
    \/ CallAdjustNoWeights
    \/ Return

SpecAdjust == Init /\ [][NextAdjust]_vars

\* The consider-parameter covariance on its own.
NextConsider == CallConsiderCovariance \/ Return

SpecConsider == Init /\ [][NextConsider]_vars

\* The polynomial fits on their own.
NextFit == CallPolynomialFit \/ CallPolynomialFitFromMap \/ Return

SpecFit == Init /\ [][NextFit]_vars

(***************************************************************************)
(* The claims.                                                             *)
(***************************************************************************)
\* diag( w ) as a matrix, and H with row i scaled by w[i].
Diag(w) == Matrix([i \in 1..Len(w) |-> [j \in 1..Len(w) |-> IF i = j THEN w[i] ELSE 0]])

RowScaled(H, w) == Matrix([i \in 1..Rows(H) |-> [j \in 1..Cols(H) |-> w[i] * H[i][j]]])

VecScale(c, v) == Vector([k \in 1..Len(v) |-> c * v[k]])

IsSymmetric(M) ==
    /\ Rows(M) = Cols(M)
    /\ \A i \in 1..Rows(M) : \A j \in 1..Cols(M) : M[i][j] = M[j][i]

\* The normal matrix  P0inv + H^T diag( w ) H  of the arguments of the call.
NormalMatrixOfArgs ==
    MatAdd(args.inverseOfAPrioriCovarianceMatrix,
           MatMul(MatMul(Transpose(args.informationMatrix),
                         Diag(args.diagonalOfWeightMatrix)),
                  args.informationMatrix))

\* H^T diag( w ) r  of the arguments of the call.
WeightedRightHandSideOfArgs ==
    MatVec(MatMul(Transpose(args.informationMatrix), Diag(args.diagonalOfWeightMatrix)),
           args.observationResiduals)

\* ( H^T H )^-1 H^T r, the ordinary least squares solution, for H of full rank.
OrdinaryLeastSquaresOfArgs ==
    LET HtH == MatMul(Transpose(args.informationMatrix), args.informationMatrix)
    IN  FracVector(MatVec(MatMul(Adjugate(HtH), Transpose(args.informationMatrix)),
                          args.observationResiduals),
                   Det(HtH))

AdjustCalled == op = "performLeastSquaresAdjustmentFromInformationMatrix"

\* C1: the adjustment returns ( dx, N ) with N = P0inv + H^T diag( w ) H and,
\* for invertible N, N dx = H^T ( w .* r ); with unit weights and no prior dx
\* is the ordinary least squares solution ( H^T H )^-1 H^T r for H of full
\* rank; H = [[1,0],[0,1],[1,1]], r = [1,2,3] gives dx = [1,2].
C1_AdjustSolvesNormalEquations ==
    AdjustCalled =>
        \A N \in {NormalMatrixOfArgs} :
            /\ ret.status = "returned"
            /\ ret.value.second = N
            /\ Det(N) # 0 =>
                  /\ ret.value.first.den > 0
                  /\ MatVec(N, ret.value.first.num)
                         = VecScale(ret.value.first.den, WeightedRightHandSideOfArgs)
            /\ ( /\ args.diagonalOfWeightMatrix = Constant(Rows(args.informationMatrix), 1)
                 /\ args.inverseOfAPrioriCovarianceMatrix
                        = Zero(Cols(args.informationMatrix), Cols(args.informationMatrix))
                 /\ Det(N) # 0 )
                  => ret.value.first = OrdinaryLeastSquaresOfArgs
            /\ ( /\ args.informationMatrix = ScenarioInformationMatrix
                 /\ args.observationResiduals = ScenarioResiduals
                 /\ args.diagonalOfWeightMatrix = Constant(3, 1)
                 /\ args.inverseOfAPrioriCovarianceMatrix = Zero(2, 2) )
                  => ret.value.first = [num |-> <<1, 2>>, den |-> 1]

\* The scenario of C1 has been adjusted: dx = [1,2].
C1_Witness ==
    /\ AdjustCalled
    /\ args.informationMatrix = ScenarioInformationMatrix
    /\ args.observationResiduals = ScenarioResiduals
    /\ args.diagonalOfWeightMatrix = Constant(3, 1)
    /\ args.inverseOfAPrioriCovarianceMatrix = Zero(2, 2)
    /\ ret.value.first = [num |-> <<1, 2>>, den |-> 1]
    /\ ret.value.second = << <<2, 1>>, <<1, 2>> >>

\* C2: the inverse of the updated covariance is P0inv + H^T ( H with row i
\* scaled by w[i] ), hence P0inv plus its value for a zero prior; the overload
\* without a prior is the function with a zero cols x cols prior.
C2_PriorAddsToInformation ==
    /\ op = "calculateInverseOfUpdatedCovarianceMatrix" =>
          /\ ret.value = MatAdd(args.inverseOfAPrioriCovarianceMatrix,
                                MatMul(Transpose(args.informationMatrix),
                                       RowScaled(args.informationMatrix,
                                                 args.diagonalOfWeightMatrix)))
          /\ ret.value = MatAdd(args.inverseOfAPrioriCovarianceMatrix,
                                calculateInverseOfUpdatedCovarianceMatrixNoPrior(
                                    args.informationMatrix, args.diagonalOfWeightMatrix))
    /\ op = "calculateInverseOfUpdatedCovarianceMatrixNoPrior" =>
          /\ ret.value = MatMul(Transpose(args.informationMatrix),
                                RowScaled(args.informationMatrix,
                                          args.diagonalOfWeightMatrix))
          /\ ret.value = calculateInverseOfUpdatedCovarianceMatrix(
                             args.informationMatrix, args.diagonalOfWeightMatrix,
                             Zero(Cols(args.informationMatrix), Cols(args.informationMatrix)))

\* A prior that is not zero has been added to information that is not zero.
C2_Witness ==
    /\ op = "calculateInverseOfUpdatedCovarianceMatrix"
    /\ args.informationMatrix = << <<1, 0 - 1>>, <<0, 1>> >>
    /\ args.diagonalOfWeightMatrix = <<2, 1>>
    /\ args.inverseOfAPrioriCovarianceMatrix = << <<1, 1>>, <<0, 1>> >>
    /\ ret.value = << <<3, 0 - 1>>, <<0 - 2, 4>> >>

\* C3: for a symmetric P0inv (and weights >= 0) the inverse of the updated
\* covariance is symmetric, and so is the second component of an adjustment.
C3_InverseCovarianceSymmetric ==
    /\ ( /\ op \in {"calculateInverseOfUpdatedCovarianceMatrix",
                    "performLeastSquaresAdjustmentFromInformationMatrix"}
         /\ IsSymmetric(args.inverseOfAPrioriCovarianceMatrix)
         /\ \A k \in 1..Len(args.diagonalOfWeightMatrix) :
                args.diagonalOfWeightMatrix[k] >= 0 )
          => IsSymmetric(IF AdjustCalled THEN ret.value.second ELSE ret.value)
    /\ op = "calculateInverseOfUpdatedCovarianceMatrixNoPrior" => IsSymmetric(ret.value)
    /\ op \in {"performLeastSquaresAdjustmentFromInformationMatrixNoPrior",
               "performLeastSquaresAdjustmentFromInformationMatrixNoWeights"}
          => IsSymmetric(ret.value.second)

\* A symmetric result with entries off the diagonal, from unequal weights.
C3_Witness ==
    /\ op = "calculateInverseOfUpdatedCovarianceMatrix"
    /\ args.informationMatrix = << <<1, 1>>, <<1, 0 - 1>> >>
    /\ args.diagonalOfWeightMatrix = <<2, 1>>
    /\ args.inverseOfAPrioriCovarianceMatrix = Identity(2)
    /\ ret.value = << <<4, 1>>, <<1, 4>> >>

WeightCalled == op = "multiplyInformationMatrixByDiagonalWeightMatrix"

\* C4: a call of multiplyInformationMatrixByDiagonalWeightMatrix with weights
\* of another length than the rows of the information matrix fails before any
\* numeric work: no weighted matrix is returned.
C4_MismatchReturnsNoMatrix ==
    ( /\ WeightCalled
      /\ Len(args.diagonalOfWeightMatrix) # Rows(args.informationMatrix) )
        => ret.status # "returned"

SolveCalled ==
    op \in {"solveSystemOfEquationsWithSvd", "solveSystemOfEquationsWithSvdDefault"}

\* The condition number of the matrix of the call exceeds the limit of the call.
ConditionNumberExceedsLimit ==
    GreaterThan(getConditionNumberOfInformationMatrix(args.matrixToInvert),
                args.maximumAllowedConditionNumber)

\* C5: the solver writes a warning exactly when checkConditionNumber holds
\* and the condition number of the matrix is strictly greater than
\* maximumAllowedConditionNumber; it writes at most one warning and it
\* returns a solution in every case.  An ill-conditioned matrix with right-hand
\* side b and limit 1e3 gives one warning and the solution.
C5_WarningIffCheckedAndExceeded ==
    SolveCalled =>
        /\ ret.status = "returned"
        /\ Len(cerr) <= 1
        /\ (Len(cerr) = 1) <=> (args.checkConditionNumber /\ ConditionNumberExceedsLimit)
        /\ \* strictly greater: a condition number of 1 is not over the limit 1
           ( /\ args.matrixToInvert = Identity(Rows(args.matrixToInvert))
             /\ args.maximumAllowedConditionNumber = [num |-> 1, den |-> 1] )
              => cerr = <<>>
        /\ \* a singular matrix that is not zero has an infinite condition number
           ( /\ args.checkConditionNumber
             /\ Rows(args.matrixToInvert) = 2
             /\ Det(args.matrixToInvert) = 0
             /\ args.matrixToInvert # Zero(2, 2) )
              => Len(cerr) = 1
        /\ ( /\ args.matrixToInvert = IllConditionedMatrix
             /\ args.rightHandSideVector = IllConditionedRightHandSide )
              => /\ ret.value = [num |-> <<2, 0>>, den |-> 1]
                 /\ ( /\ args.checkConditionNumber
                      /\ args.maximumAllowedConditionNumber = ScenarioConditionLimit )
                       => Len(cerr) = 1

\* The ill-conditioned system solved with the limit 1e3: one warning, and the
\* solution returned.
C5_Witness ==
    /\ op = "solveSystemOfEquationsWithSvd"
    /\ args.matrixToInvert = IllConditionedMatrix
    /\ args.rightHandSideVector = IllConditionedRightHandSide
    /\ args.checkConditionNumber
    /\ args.maximumAllowedConditionNumber = ScenarioConditionLimit
    /\ Len(cerr) = 1
    /\ ret.status = "returned"
    /\ ret.value = [num |-> <<2, 0>>, den |-> 1]

\* The flags of a call that tests nothing.
TestOff == <<FALSE, [num |-> 1, den |-> 1]>>

\* C6: the value returned by the solver and by the adjustment depends on the
\* numeric arguments only: whatever checkConditionNumber and
\* maximumAllowedConditionNumber are, and whether or not a warning is written,
\* it is the value of the call with the same numeric arguments and the test
\* off (so any two calls with the same numeric arguments return the same).
C6_ResultIndependentOfFlags ==
    /\ SolveCalled =>
          solveSystemOfEquationsWithSvd(
              args.matrixToInvert, args.rightHandSideVector,
              TestOff[1], TestOff[2]).value = ret.value
    /\ AdjustCalled =>
          \A other \in {performLeastSquaresAdjustmentFromInformationMatrix(
                            args.informationMatrix, args.observationResiduals,
                            args.diagonalOfWeightMatrix,
                            args.inverseOfAPrioriCovarianceMatrix,
                            ZeroVector(Cols(args.informationMatrix)),
                            TestOff[1], TestOff[2])} :
              /\ other.first = ret.value.first
              /\ other.second = ret.value.second

\* An adjustment that wrote a warning and returned the solution of its normal
\* equations, while the same call with the test off writes nothing.
C6_Witness ==
    /\ AdjustCalled
    /\ cerr # <<>>
    /\ Det(NormalMatrixOfArgs) # 0
    /\ ret.value.first.num # ZeroVector(Cols(args.informationMatrix))
    /\ performLeastSquaresAdjustmentFromInformationMatrix(
           args.informationMatrix, args.observationResiduals,
           args.diagonalOfWeightMatrix, args.inverseOfAPrioriCovarianceMatrix,
           ZeroVector(Cols(args.informationMatrix)),
           FALSE, args.maximumAllowedConditionNumber).cerr = <<>>

\* C7: a call of the solver with the matrix and the right-hand side only uses
\* checkConditionNumber = true and maximumAllowedConditionNumber = 1e8, the
\* default of the adjustment; so it writes no warning for a matrix with a
\* condition number of at most 1e8, such as the identity.
C7_SolverDefaultsAreThoseOfAdjustment ==
    op = "solveSystemOfEquationsWithSvdDefault" =>
        /\ args.checkConditionNumber = AdjustmentDefaultCheckConditionNumber
        /\ args.maximumAllowedConditionNumber
               = AdjustmentDefaultMaximumAllowedConditionNumber
        /\ ~GreaterThan(getConditionNumberOfInformationMatrix(args.matrixToInvert),
                        AdjustmentDefaultMaximumAllowedConditionNumber)
              => cerr = <<>>

AdjustNoPriorCalled == op = "performLeastSquaresAdjustmentFromInformationMatrixNoPrior"

AdjustNoWeightsCalled == op = "performLeastSquaresAdjustmentFromInformationMatrixNoWeights"

\* C8: the overloads of the adjustment differ by the defaults only: without a
\* prior, the pair and the warnings are those of the full overload with a zero
\* cols x cols prior; without weights, those of the overload with length( r )
\* weights of 1 (and hence of the full overload with both).
C8_OverloadsSubstituteDefaults ==
    /\ AdjustNoPriorCalled =>
          \A full \in {performLeastSquaresAdjustmentFromInformationMatrix(
                           args.informationMatrix, args.observationResiduals,
                           args.diagonalOfWeightMatrix,
                           Zero(Cols(args.informationMatrix), Cols(args.informationMatrix)),
                           ZeroVector(Cols(args.informationMatrix)),
                           args.checkConditionNumber,
                           args.maximumAllowedConditionNumber)} :
              /\ ret.value = [first |-> full.first, second |-> full.second]
              /\ cerr = full.cerr
    /\ AdjustNoWeightsCalled =>
          \A ones \in {Constant(Len(args.observationResiduals), 1)} :
          \A weighted \in {performLeastSquaresAdjustmentFromInformationMatrixNoPrior(
                               args.informationMatrix, args.observationResiduals, ones,
                               args.checkConditionNumber,
                               args.maximumAllowedConditionNumber)} :
          \A full \in {performLeastSquaresAdjustmentFromInformationMatrix(
                           args.informationMatrix, args.observationResiduals, ones,
                           Zero(Cols(args.informationMatrix), Cols(args.informationMatrix)),
                           ZeroVector(Cols(args.informationMatrix)),
                           args.checkConditionNumber,
                           args.maximumAllowedConditionNumber)} :
              /\ ret.value = [first |-> weighted.first, second |-> weighted.second]
              /\ ret.value = [first |-> full.first, second |-> full.second]
              /\ ret.value.second
                     = MatMul(Transpose(args.informationMatrix), args.informationMatrix)
              /\ cerr = weighted.cerr
              /\ cerr = full.cerr

\* The overload without a prior has adjusted weighted observations, with a
\* warning, to a pair that a unit prior would change.
C8_Witness ==
    /\ AdjustNoPriorCalled
    /\ args.informationMatrix = << <<1, 1>>, <<1, 0 - 1>> >>
    /\ args.observationResiduals = <<1, 1>>
    /\ args.diagonalOfWeightMatrix = <<2, 1>>
    /\ args.checkConditionNumber
    /\ args.maximumAllowedConditionNumber = [num |-> 1, den |-> 1]
    /\ ret.value.second = << <<3, 1>>, <<1, 3>> >>
    /\ ret.value.first = [num |-> <<1, 0>>, den |-> 1]
    /\ Len(cerr) = 1

ConsiderCalled == op = "calculateCovarianceMatrixWithConsiderParameters"

\* C9: the consider covariance fails with an error and returns no matrix
\* whenever  P0inv + H^T diag( w ) H  is not invertible.
C9_SingularNormalMatrixReturnsNoMatrix ==
    (ConsiderCalled /\ Det(NormalMatrixOfArgs) = 0) => ret.status # "returned"

\* Symmetric with no negative eigenvalue, for 1 x 1 and 2 x 2 matrices: no
\* negative entry on the diagonal and no negative determinant.
IsPositiveSemidefinite(M) ==
    /\ IsSymmetric(M)
    /\ \A i \in 1..Rows(M) : M[i][i] >= 0
    /\ Det(M) >= 0

\* x^T M x
QuadraticForm(M, x) == Dot(x, MatVec(M, x))

TestVectors(n) == [1..n -> {0 - 2, 0 - 1, 0, 1, 2}]

Sign(x) == IF x < 0 THEN 0 - 1 ELSE 1

\* ( adj( N ) ( diag( w ) H )^T Hc ) Pc ( the same )^T: the contribution of
\* the consider parameters, times det( N )^2.
ConsiderTermOfArgs(N) ==
    LET SHc == MatMul(MatMul(Adjugate(N),
                             Transpose(MatMul(Diag(args.diagonalOfWeightMatrix),
                                              args.informationMatrix))),
                      args.considerInformationMatrix)
    IN  MatMul(MatMul(SHc, args.considerCovarianceMatrix), Transpose(SHc))

\* C10: for invertible N = P0inv + H^T diag( w ) H the consider covariance is
\* Pnoise + ( S Hc ) Pc ( Hc^T S^T ) with Pnoise = N^-1 and
\* S = Pnoise ( diag( w ) H )^T, and for a positive-semidefinite Pc the returned
\* matrix minus Pnoise is positive-semidefinite.  With d = det( N ) and
\* Pnoise = adj( N ) / d the returned num / den is stated without division:
\* d^2 num = den ( d adj( N ) + term ), and den d ( result - Pnoise ) is
\* d num - den adj( N ), of the sign of d.
C10_ConsiderCovarianceInflates ==
    ConsiderCalled =>
        \A N \in {NormalMatrixOfArgs} :
            Det(N) # 0 =>
                \A d \in {Det(N)} :
                \A term \in {ConsiderTermOfArgs(N)} :
                \A inflation \in {MatScale(Sign(d),
                                           MatAdd(MatScale(d, ret.value.num),
                                                  MatScale(0 - ret.value.den,
                                                           Adjugate(N))))} :
                    /\ ret.status = "returned"
                    /\ ret.value.den > 0
                    /\ MatMul(N, Adjugate(N)) = MatScale(d, Identity(Rows(N)))
                    /\ MatScale(d * d, ret.value.num)
                           = MatScale(ret.value.den,
                                      MatAdd(MatScale(d, Adjugate(N)), term))
                    /\ IsPositiveSemidefinite(args.considerCovarianceMatrix) =>
                          /\ IsPositiveSemidefinite(inflation)
                          /\ \A x \in TestVectors(Rows(N)) :
                                 QuadraticForm(inflation, x) >= 0

\* A consider covariance with an invertible normal matrix, a positive-
\* semidefinite consider covariance with correlation, and a noise-only
\* covariance inflated in every entry.
C10_Witness ==
    /\ ConsiderCalled
    /\ args.informationMatrix = << <<1, 0>>, <<1, 1>> >>
    /\ args.diagonalOfWeightMatrix = <<1, 2>>
    /\ args.inverseOfAPrioriCovarianceMatrix = Zero(2, 2)
    /\ args.considerInformationMatrix = << <<1, 0>>, <<0, 1>> >>
    /\ args.considerCovarianceMatrix = << <<1, 1>>, <<1, 1>> >>
    /\ Det(NormalMatrixOfArgs) = 2
    /\ ret.status = "returned"
    /\ ret.value.den > 0
    /\ MatScale(2, ret.value.num) # MatScale(ret.value.den, Adjugate(NormalMatrixOfArgs))

FitCalled == op = "getLeastSquaresPolynomialFit"

FitFromMapCalled == op = "getLeastSquaresPolynomialFitFromMap"

\* H[i][j] = x_i ^ p_j, the power 0 of any x being 1 (as the constant term of
\* the polynomial at x = 0 requires).
PowersOfSamples(x, powers) ==
    Matrix([i \in 1..Len(x) |-> [j \in 1..Len(powers) |-> IF powers[j] = 0 THEN 1 ELSE x[i] ^ powers[j]]])

\* The keys of a map from the least to the greatest.
IncreasingKeys(samples) ==
    CHOOSE x \in [1..Cardinality(DOMAIN samples) -> DOMAIN samples] :
        \A i \in 1..(Cardinality(DOMAIN samples) - 1) : x[i] < x[i + 1]

\* C11: for equally many x and y values and powers p_1..p_k the polynomial fit
\* returns, as its k coefficients, the correction of the adjustment of
\* ( H, y ) with H[i][j] = x_i ^ p_j, unit weights and no prior (so that
\* H^T H c = H^T y when H^T H is invertible); the overload taking a map returns
\* the coefficients of the fit of its keys and values in the order of the keys;
\* the samples (0,1), (1,3), (2,5) with the powers 0, 1 give [1,2].
C11_FitAdjustsPowersOfSamples ==
    /\ ( /\ FitCalled
         /\ Len(args.independentValues) = Len(args.dependentValues) )
          => \A H \in {PowersOfSamples(args.independentValues, args.polynomialPowers)} :
             \A k \in {Len(args.polynomialPowers)} :
             \A adjusted \in {performLeastSquaresAdjustmentFromInformationMatrix(
                                  H, args.dependentValues,
                                  Constant(Len(args.dependentValues), 1),
                                  Zero(k, k), ZeroVector(k),
                                  AdjustmentDefaultCheckConditionNumber,
                                  AdjustmentDefaultMaximumAllowedConditionNumber)} :
                 /\ ret.status = "returned"
                 /\ ret.value = adjusted.first
                 /\ Len(ret.value.num) = k
                 /\ adjusted.second = MatMul(Transpose(H), H)
                 /\ Det(adjusted.second) # 0 =>
                       /\ ret.value.den > 0
                       /\ MatVec(adjusted.second, ret.value.num)
                              = VecScale(ret.value.den,
                                         MatVec(Transpose(H), args.dependentValues))
                 /\ ( /\ args.independentValues = <<0, 1, 2>>
                      /\ args.dependentValues = <<1, 3, 5>>
                      /\ args.polynomialPowers = <<0, 1>> )
                       => ret.value = [num |-> <<1, 2>>, den |-> 1]
    /\ FitFromMapCalled
          => \A x \in {IncreasingKeys(args.independentDependentValueMap)} :
             \A y \in {[i \in 1..Len(x) |-> args.independentDependentValueMap[x[i]]]} :
                 /\ ret.status = "returned"
                 /\ ret.value = getLeastSquaresPolynomialFit(
                                    x, y, args.polynomialPowers).value
                 /\ ( /\ x = <<0, 1, 2>>
                      /\ y = <<1, 3, 5>>
                      /\ args.polynomialPowers = <<0, 1>> )
                       => ret.value = [num |-> <<1, 2>>, den |-> 1]

\* The samples (0,1), (1,3), (2,5) fitted with the powers 0, 1: y = 1 + 2 x.
C11_Witness ==
    /\ FitCalled
    /\ args.independentValues = <<0, 1, 2>>
    /\ args.dependentValues = <<1, 3, 5>>
    /\ args.polynomialPowers = <<0, 1>>
    /\ ret.status = "returned"
    /\ ret.value = [num |-> <<1, 2>>, den |-> 1]
    /\ cerr = <<>>
====
